---- MODULE Spec2Model ----
(***************************************************************************)
(* Model of the OpenStack Swift recon exporter (exporter.go).              *)
(*                                                                         *)
(* Each caller of Exporter.Collect is a process; the goroutine started by  *)
(* `go exp.scrape(scrapes)` is a second process per caller.  The unbuffered*)
(* channel `scrapes` is a rendezvous: a send completes in the same step in *)
(* which the consumer (setMetrics) receives.  JSON numbers are modelled by *)
(* small integers.  A panic that no caller recovers (GaugeVec.With on a    *)
(* label set that does not match the vector) terminates the process.       *)
(* Each caller stands for one scrape request of the metrics handler, which *)
(* calls Collect once.  The diagnostic endpoint answers each request with  *)
(* the healthy body of the resource, or deviates from it (an error or      *)
(* another body) for a bounded number of requests per cycle.               *)
(***************************************************************************)
EXTENDS Integers, Sequences, FiniteSets, TLC

(* ------------------------------ bounds -------------------------------- *)
\* number of scrape requests; each calls Collect once, at any time
NumCallers == 2
\* number of requests of one cycle that are answered with anything but the
\* healthy answer (an error, or another body)
MaxDeviations == 1
\* number of samples the setMetrics driver feeds (SpecFold)
MaxFolds == 3

Callers == 1..NumCallers
NoCaller == 0

VARIABLES
    mtx,           \* exp.RWMutex (embedded): NoCaller or the caller holding it
    metrics,       \* exp.metrics: name -> GaugeVec
    duration,      \* exp.duration (gauge value)
    totalScrapes,  \* exp.totalScrapes (counter value)
    scrapeErrors,  \* exp.scrapeErrors (gauge value)
    pc,            \* position of each caller inside Collect / setMetrics
    scr,           \* setMetrics' loop variable `scr` of each caller
    closed,        \* whether the caller's channel `scrapes` is closed
    prod,          \* the scrape goroutine of each caller
    crashed,       \* the process died of an unrecovered panic
    completed,     \* number of Collect calls that returned
    fed,           \* number of samples fed by the setMetrics driver
    folded,        \* history: samples folded by the caller's current cycle
    fetched,       \* history: resources requested in the current cycle
    failed,        \* history: resources whose request returned an error
    droppedAsync,  \* history: initGauges of this cycle dropped a set async cell
    deviant,       \* number of requests of this cycle not answered healthily
    out,           \* what the caller's Collect has emitted on `ch`
    desc           \* position of the Describe call

vars == <<mtx, metrics, duration, totalScrapes, scrapeErrors, pc, scr, closed,
          prod, crashed, completed, fed, folded, fetched, failed,
          droppedAsync, deviant, out, desc>>

expVars  == <<metrics, duration, totalScrapes, scrapeErrors>>
histVars == <<folded, fetched, failed, droppedAsync, deviant>>

(* --------------------------- decoded JSON ----------------------------- *)
\* interface{} values produced by encoding/json
Num(n) == [k |-> "num", v |-> n]
Str    == [k |-> "str"]
Obj(m) == [k |-> "obj", m |-> m]
\* the nil map returned with a transport error
NilMap == <<>>

\* res[key].(float64)
IsFloat64(res, key) == key \in DOMAIN res /\ res[key].k = "num"
\* res[key].(map[string]interface{})
IsMap(res, key) == key \in DOMAIN res /\ res[key].k = "obj"

(* ----------------------------- samples -------------------------------- *)
scrapeResult(name, value, type, status) ==
    [Name |-> name, Value |-> value, Type |-> type, Status |-> status]
\* zero value of the struct
NoScr == scrapeResult("", 0, "", "")

(* ----------------------------- registry ------------------------------- *)
\* prometheus.NewGaugeVec(GaugeOpts{Name: name}, labels): no cell is set
NewGaugeVec(name, labels) == [name |-> name, labels |-> labels, cells |-> <<>>]

\* the map built by initGauges
CatalogMetrics ==
    [ async                     |-> NewGaugeVec("async", {"status"}),
      replication_time          |-> NewGaugeVec("replication_time", {"type"}),
      replication_last          |-> NewGaugeVec("replication_last", {"type"}),
      replication_stats         |-> NewGaugeVec("replication_stats", {"type", "status"}),
      updater_sweep             |-> NewGaugeVec("updater_sweep", {"type"}),
      expirer_expiration_pass   |-> NewGaugeVec("expirer_expiration_pass", {"type"}),
      expirer_expired_last_pass |-> NewGaugeVec("expired_last_pass", {"type"}),
      quarantined               |-> NewGaugeVec("quarantined", {"type"}) ]

\* faulty variant of RefreshedMetrics: Collect keeps the registry of the last cycle
StaleMetrics(old) == old
\* exp.initGauges() at the start of Collect: the map is re-created
RefreshedMetrics(old) == CatalogMetrics

\* faulty variant of Register: the entry is created without the presence check
RegisterAlways(m, name) ==
    (name :> NewGaugeVec(name, {"type", "status"})) @@ m
\* setMetrics: create the entry of an unseen name
Register(m, name) ==
    IF name \in DOMAIN m
    THEN m
    ELSE (name :> NewGaugeVec(name, {"type", "status"})) @@ m

\* setMetrics: the prometheus.Labels built from a sample
LabelsOf(s) ==
    (IF s.Type # "" THEN {<<"type", s.Type>>} ELSE {}) \cup
    (IF s.Status # "" THEN {<<"status", s.Status>>} ELSE {})

\* GaugeVec.With(labels) panics unless the label names are the vector's
WithOk(vec, labels) == {l[1] : l \in labels} = vec.labels

\* faulty variant of SetCell: Add instead of Set
SetCellAdd(m, name, labels, v) ==
    [m EXCEPT ![name].cells =
        (labels :> (IF labels \in DOMAIN @ THEN @[labels] + v ELSE v)) @@ @]
\* exp.metrics[name].With(labels).Set(v)
SetCell(m, name, labels, v) ==
    [m EXCEPT ![name].cells = (labels :> v) @@ @]

\* the cell async{status="pending"}
AsyncPending(v) == <<"async", {<<"status", "pending">>}, v>>

\* collectMetrics: the families the entries are exposed as, each under the
\* Name its GaugeVec was created with
ExposedFamilies(m) == {<<m[n].name, m[n].labels>> : n \in DOMAIN m}

\* collectMetrics: every cell of every entry
CellsOf(m) ==
    UNION { {<<n, l, m[n].cells[l]>> : l \in DOMAIN m[n].cells} : n \in DOMAIN m }

(* ------------------------- diagnostic resources ----------------------- *)
\* the requests of scrape, in program order
Resources ==
    << [op |-> "async",       t |-> "",          method |-> "async"],
       [op |-> "replication", t |-> "container", method |-> "replication/" \o "container"],
       [op |-> "replication", t |-> "account",   method |-> "replication/" \o "account"],
       [op |-> "replication", t |-> "object",    method |-> "replication/" \o "object"],
       [op |-> "updater",     t |-> "container", method |-> "updater/" \o "container"],
       [op |-> "updater",     t |-> "object",    method |-> "updater/" \o "object"],
       [op |-> "expirer",     t |-> "object",    method |-> "expirer/" \o "object"],
       [op |-> "quarantined", t |-> "",          method |-> "quarantined"] >>

NumResources == Len(Resources)

Field(key, name, type, status) ==
    [key |-> key, Name |-> name, Type |-> type, Status |-> status]

\* the top-level fields each scrape function extracts, in program order
scrapeAsyncFields == << Field("async_pending", "async", "", "pending") >>
scrapeReplicationFields(t) ==
    << Field("replication_time", "replication_time", t, ""),
       Field("replication_last", "replication_last", t, "") >>
scrapeUpdaterFields(t) ==
    << Field(t \o "_updater_sweep", "updater_sweep", t, "") >>
\* faulty variant of scrapeExpirerFields: the second sample is named as its
\* response field
scrapeExpirerFieldsUnlisted(t) ==
    << Field(t \o "_expiration_pass", "expirer_expiration_pass", t, ""),
       Field("expired_last_pass", "expired_last_pass", t, "") >>
scrapeExpirerFields(t) ==
    << Field(t \o "_expiration_pass", "expirer_expiration_pass", t, ""),
       Field("expired_last_pass", "expirer_expired_last_pass", t, "") >>
scrapeQuarantinedFields ==
    << Field("container" \o "s", "quarantined", "container", ""),
       Field("account" \o "s", "quarantined", "account", ""),
       Field("object" \o "s", "quarantined", "object", "") >>

FieldsOf(r) ==
    CASE r.op = "async"       -> scrapeAsyncFields
      [] r.op = "replication" -> scrapeReplicationFields(r.t)
      [] r.op = "updater"     -> scrapeUpdaterFields(r.t)
      [] r.op = "expirer"     -> scrapeExpirerFields(r.t)
      [] r.op = "quarantined" -> scrapeQuarantinedFields

\* faulty variant of FieldSample: an absent or mistyped field is sent as 0
FieldSampleOrZero(res, f) ==
    IF IsFloat64(res, f.key)
    THEN {scrapeResult(f.Name, res[f.key].v, f.Type, f.Status)}
    ELSE {scrapeResult(f.Name, 0, f.Type, f.Status)}
\* `if v, ok := res[key].(float64); ok { scrapes <- scrapeResult{...} }`:
\* the sample to send for a field, if any
FieldSample(res, f) ==
    IF IsFloat64(res, f.key)
    THEN {scrapeResult(f.Name, res[f.key].v, f.Type, f.Status)}
    ELSE {}

\* scrapeReplication: the decoded replication_stats map, if there is one
ReplicationStats(r, res) ==
    IF r.op = "replication" /\ IsMap(res, "replication_stats")
    THEN res["replication_stats"].m
    ELSE <<>>

\* faulty variant of StatSample: the failure_nodes key is not skipped
StatSampleNoSkip(t, stats, status) ==
    IF stats[status].k = "num"
    THEN {scrapeResult("replication_stats", stats[status].v, t, status)}
    ELSE {}
\* body of `for status, value := range replication_stats`
StatSample(t, stats, status) ==
    IF status = "failure_nodes"
    THEN {}
    ELSE IF stats[status].k = "num"
         THEN {scrapeResult("replication_stats", stats[status].v, t, status)}
         ELSE {}

(* --------------------------- HTTP responses --------------------------- *)
asyncBodies ==
    { <<>>,
      [async_pending |-> Num(3)],
      [async_pending |-> Num(0)],
      [async_pending |-> Str],
      [async |-> Num(5)] }

replicationBodies ==
    { <<>>,
      [replication_time |-> Num(1), replication_last |-> Num(2),
       replication_stats |-> Obj([success |-> Num(4),
                                  failure_nodes |-> Obj([n1 |-> Num(1)])])],
      [replication_time |-> Num(1),
       replication_stats |-> Obj([success |-> Num(4), failure |-> Num(2),
                                  failure_nodes |-> Obj([n1 |-> Num(1)])])],
      [replication_time |-> Str, replication_last |-> Num(2),
       replication_stats |-> Obj([failure_nodes |-> Num(7), success |-> Str])],
      [replication_stats |-> Obj(("" :> Num(5)) @@ [success |-> Num(4)])],
      [replication_last |-> Str, replication_stats |-> Num(9)] }

updaterBodies ==
    { <<>>,
      [container_updater_sweep |-> Num(6)],
      [object_updater_sweep |-> Num(8)],
      [container_updater_sweep |-> Str, object_updater_sweep |-> Str] }

expirerBodies ==
    { <<>>,
      [object_expiration_pass |-> Num(1), expired_last_pass |-> Num(0)],
      [expired_last_pass |-> Num(5), object_expiration_pass |-> Str],
      [object_expired_last_pass |-> Num(5), expiration_pass |-> Num(2)] }

quarantinedBodies ==
    { <<>>,
      [objects |-> Num(5), accounts |-> Num(0), containers |-> Num(2)],
      [objects |-> Str, accounts |-> Num(1)],
      [object |-> Num(5), account |-> Num(1)] }

\* the JSON objects the endpoint may answer a request with
Bodies(r) ==
    CASE r.op = "async"       -> asyncBodies
      [] r.op = "replication" -> replicationBodies
      [] r.op = "updater"     -> updaterBodies
      [] r.op = "expirer"     -> expirerBodies
      [] r.op = "quarantined" -> quarantinedBodies

\* the answer of a cluster in which every subsystem reports its figures
Healthy(r) ==
    CASE r.op = "async"       -> [async_pending |-> Num(3)]
      [] r.op = "replication" ->
            [replication_time |-> Num(1), replication_last |-> Num(2),
             replication_stats |-> Obj([success |-> Num(4),
                                        failure_nodes |-> Obj([n1 |-> Num(1)])])]
      [] r.op = "updater"     ->
            IF r.t = "container"
            THEN [container_updater_sweep |-> Num(6)]
            ELSE [object_updater_sweep |-> Num(8)]
      [] r.op = "expirer"     ->
            [object_expiration_pass |-> Num(1), expired_last_pass |-> Num(0)]
      [] r.op = "quarantined" ->
            [objects |-> Num(5), accounts |-> Num(0), containers |-> Num(2)]

HealthyOutcome(r) == [kind |-> "ok", body |-> Healthy(r)]

\* what http.Get and Decode can do: a transport error, a decode error that
\* leaves a partially filled map behind, or a decoded object
Outcomes(r) ==
    {[kind |-> "neterr", body |-> NilMap]} \cup
    {[kind |-> "baddecode", body |-> b] : b \in Bodies(r)} \cup
    {[kind |-> "ok", body |-> b] : b \in Bodies(r)}

\* faulty variant of request: a decode error is swallowed
requestIgnoringDecodeError(o) ==
    IF o.kind = "neterr"
    THEN [res |-> NilMap, err |-> TRUE]
    ELSE [res |-> o.body, err |-> FALSE]
\* Exporter.request: (result, err)
request(o) ==
    IF o.kind = "neterr"
    THEN [res |-> NilMap, err |-> TRUE]
    ELSE [res |-> o.body, err |-> o.kind = "baddecode"]

\* `return` inside a scrape function: the first request of the next function
AfterReturn(i) ==
    IF \E j \in (i+1)..NumResources : Resources[j].op # Resources[i].op
    THEN CHOOSE j \in (i+1)..NumResources :
            /\ Resources[j].op # Resources[i].op
            /\ \A h \in (i+1)..(j-1) : Resources[h].op = Resources[i].op
    ELSE NumResources + 1

(* ------------------------------ state --------------------------------- *)
\* the value time.Now() - now is abstracted to: a gauge that has been Set
Elapsed == 1

NoProd == [pc |-> "none", idx |-> 0, res |-> NilMap, fld |-> 0, seen |-> {}]
NoOut == <<>>

\* NewSwiftExporter: Ping succeeds, initGauges builds the registry
Init ==
    /\ mtx = NoCaller
    /\ metrics = CatalogMetrics
    /\ duration = 0
    /\ totalScrapes = 0
    /\ scrapeErrors = 0
    /\ pc = [c \in Callers |-> "idle"]
    /\ scr = [c \in Callers |-> NoScr]
    /\ closed = [c \in Callers |-> FALSE]
    /\ prod = [c \in Callers |-> NoProd]
    /\ crashed = FALSE
    /\ completed = 0
    /\ fed = 0
    /\ folded = [c \in Callers |-> <<>>]
    /\ fetched = [c \in Callers |-> {}]
    /\ failed = [c \in Callers |-> {}]
    /\ droppedAsync = [c \in Callers |-> FALSE]
    /\ deviant = [c \in Callers |-> 0]
    /\ out = [c \in Callers |-> NoOut]
    /\ desc = "idle"

(* ----------------------------- Collect -------------------------------- *)
\* a scrape request enters Collect: scrapes := make(chan scrapeResult)
CollectCall(c) ==
    /\ ~crashed
    /\ pc[c] = "idle"
    /\ pc' = [pc EXCEPT ![c] = "lock"]
    /\ closed' = [closed EXCEPT ![c] = FALSE]
    /\ UNCHANGED <<desc, mtx, expVars, scr, prod, crashed, completed, fed, histVars, out>>

\* faulty variant of MutexFree: Collect does not take the lock
MutexIgnored(m) == TRUE
\* exp.Lock() blocks until nobody holds the mutex
MutexFree(m) == m = NoCaller

\* exp.Lock()
CollectLock(c) ==
    /\ ~crashed
    /\ pc[c] = "lock"
    /\ MutexFree(mtx)
    /\ mtx' = c
    /\ pc' = [pc EXCEPT ![c] = "init"]
    /\ UNCHANGED <<desc, expVars, scr, closed, prod, crashed, completed, fed,
                   histVars, out>>

\* exp.initGauges(); go exp.scrape(scrapes)
CollectInit(c) ==
    /\ ~crashed
    /\ pc[c] = "init"
    /\ metrics' = RefreshedMetrics(metrics)
    /\ duration' = 0
    /\ totalScrapes' = 0
    /\ scrapeErrors' = 0
    /\ droppedAsync' = [droppedAsync EXCEPT ![c] = \E x \in CellsOf(metrics) : x = AsyncPending(x[3])]
    /\ prod' = [prod EXCEPT ![c] = [NoProd EXCEPT !.pc = "start"]]
    /\ pc' = [pc EXCEPT ![c] = "recv"]
    /\ UNCHANGED <<desc, mtx, scr, closed, crashed, completed, fed, folded,
                   fetched, failed, deviant, out>>

(* ------------------------- the scrape goroutine ----------------------- *)
\* now := time.Now(); exp.totalScrapes.Inc()
ScrapeStart(c) ==
    /\ ~crashed
    /\ prod[c].pc = "start"
    /\ totalScrapes' = totalScrapes + 1
    /\ prod' = [prod EXCEPT ![c].pc = "request", ![c].idx = 1]
    /\ UNCHANGED <<desc, mtx, metrics, duration, scrapeErrors, pc, scr, closed,
                   crashed, completed, fed, histVars, out>>

\* where the goroutine is after request i: at the next request, or past
\* the last scrape function
Goto(i) ==
    IF i > NumResources
    THEN [NoProd EXCEPT !.pc = "finish"]
    ELSE [NoProd EXCEPT !.pc = "request", !.idx = i]

\* faulty variant of logError: a failed request sets the error gauge
logErrorAndSet(gauge, err) == IF err THEN 1 ELSE gauge
\* if err != nil { log.Error(err); return }: the error is logged and the
\* value of exp.scrapeErrors stays as it is
logError(gauge, err) == gauge

\* res, err := exp.request(method); if err != nil { log.Error(err); return }
ScrapeRequest(c) ==
    /\ ~crashed
    /\ prod[c].pc = "request"
    /\ LET i == prod[c].idx
           r == Resources[i]
       IN \E o \in Outcomes(r) :
            LET rr == request(o)
            IN /\ o = HealthyOutcome(r) \/ deviant[c] < MaxDeviations
               /\ deviant' = [deviant EXCEPT ![c] =
                                IF o = HealthyOutcome(r) THEN @ ELSE @ + 1]
               /\ fetched' = [fetched EXCEPT ![c] = @ \cup {r.method}]
               /\ failed' = [failed EXCEPT ![c] =
                                IF o.kind = "ok" THEN @ ELSE @ \cup {r.method}]
               /\ prod' = [prod EXCEPT ![c] =
                                IF rr.err
                                THEN Goto(AfterReturn(i))
                                ELSE [pc |-> "extract", idx |-> i, res |-> rr.res,
                                      fld |-> 1, seen |-> {}]]
               /\ scrapeErrors' = logError(scrapeErrors, rr.err)
    /\ UNCHANGED <<desc, mtx, metrics, duration, totalScrapes, pc, scr, closed,
                   crashed, completed, fed, folded, droppedAsync, out>>

\* the top-level fields, from position fld on, that yield a sample
SendableFields(p) ==
    LET F == FieldsOf(Resources[p.idx])
    IN {j \in p.fld..Len(F) : FieldSample(p.res, F[j]) # {}}

\* the replication_stats keys not yet visited that yield a sample
SendableStats(p) ==
    LET r == Resources[p.idx]
        stats == ReplicationStats(r, p.res)
    IN {k \in DOMAIN stats \ p.seen : StatSample(r.t, stats, k) # {}}

Min(S) == CHOOSE x \in S : \A y \in S : x <= y

\* scrapes <- scrapeResult{...} for the next top-level field that has a
\* number; the send completes when setMetrics receives
ScrapeSendField(c) ==
    /\ ~crashed
    /\ prod[c].pc = "extract"
    /\ SendableFields(prod[c]) # {}
    /\ pc[c] = "recv"
    /\ ~closed[c]
    /\ LET j == Min(SendableFields(prod[c]))
           f == FieldsOf(Resources[prod[c].idx])[j]
       IN /\ \E s \in FieldSample(prod[c].res, f) : scr' = [scr EXCEPT ![c] = s]
          /\ prod' = [prod EXCEPT ![c].fld = j + 1]
    /\ pc' = [pc EXCEPT ![c] = "fold"]
    /\ UNCHANGED <<desc, mtx, expVars, closed, crashed, completed, fed,
                   histVars, out>>

\* scrapes <- scrapeResult{Name: "replication_stats", ...} for some key of
\* the map (Go ranges over a map in an unspecified order)
ScrapeSendStat(c) ==
    /\ ~crashed
    /\ prod[c].pc = "extract"
    /\ SendableFields(prod[c]) = {}
    /\ pc[c] = "recv"
    /\ ~closed[c]
    /\ \E k \in SendableStats(prod[c]) :
         LET r == Resources[prod[c].idx]
         IN /\ \E s \in StatSample(r.t, ReplicationStats(r, prod[c].res), k) :
                 scr' = [scr EXCEPT ![c] = s]
            /\ prod' = [prod EXCEPT ![c].seen = @ \cup {k},
                                    ![c].fld = Len(FieldsOf(r)) + 1]
    /\ pc' = [pc EXCEPT ![c] = "fold"]
    /\ UNCHANGED <<desc, mtx, expVars, closed, crashed, completed, fed,
                   histVars, out>>

\* nothing is left to send for this response: next iteration or function
ScrapeAdvance(c) ==
    /\ ~crashed
    /\ prod[c].pc = "extract"
    /\ SendableFields(prod[c]) = {}
    /\ SendableStats(prod[c]) = {}
    /\ prod' = [prod EXCEPT ![c] = Goto(prod[c].idx + 1)]
    /\ UNCHANGED <<desc, mtx, expVars, pc, scr, closed, crashed, completed,
                   fed, histVars, out>>

\* exp.duration.Set(...); the deferred close(scrapes) runs
ScrapeFinish(c) ==
    /\ ~crashed
    /\ prod[c].pc = "finish"
    /\ duration' = Elapsed
    /\ closed' = [closed EXCEPT ![c] = TRUE]
    /\ prod' = [prod EXCEPT ![c].pc = "done"]
    /\ UNCHANGED <<desc, mtx, metrics, totalScrapes, scrapeErrors, pc, scr, crashed,
                   completed, fed, histVars, out>>

(* ---------------------------- setMetrics ------------------------------ *)
\* one iteration of `for scr := range scrapes` after the receive.  With
\* panics on a label set that is not the vector's; the deferred Unlock of
\* Collect runs and the process dies.
Fold(c) ==
    /\ ~crashed
    /\ pc[c] = "fold"
    /\ LET name == scr[c].Name
           m1 == Register(metrics, name)
           labels == LabelsOf(scr[c])
       IN IF WithOk(m1[name], labels)
          THEN /\ metrics' = SetCell(m1, name, labels, scr[c].Value)
               /\ folded' = [folded EXCEPT ![c] = Append(@, scr[c])]
               /\ scr' = [scr EXCEPT ![c] = NoScr]
               /\ pc' = [pc EXCEPT ![c] = "recv"]
               /\ UNCHANGED <<mtx, crashed>>
          ELSE /\ metrics' = m1
               /\ pc' = [pc EXCEPT ![c] = "panicked"]
               /\ crashed' = TRUE
               /\ mtx' = IF mtx = c THEN NoCaller ELSE mtx
               /\ UNCHANGED <<folded, scr>>
    /\ UNCHANGED <<desc, duration, totalScrapes, scrapeErrors, closed, prod,
                   completed, fed, fetched, failed, droppedAsync, deviant, out>>

\* faulty variant of RangeEnds: the loop does not wait for the close
RangeEndsEarly(isClosed) == TRUE
\* `range scrapes` ends when the channel is closed
RangeEnds(isClosed) == isClosed

\* setMetrics returns to Collect
CollectRangeEnd(c) ==
    /\ ~crashed
    /\ pc[c] = "recv"
    /\ prod[c].pc # "none"
    /\ RangeEnds(closed[c])
    /\ pc' = [pc EXCEPT ![c] = "emit"]
    /\ UNCHANGED <<desc, mtx, expVars, scr, closed, prod, crashed, completed,
                   fed, histVars, out>>

\* ch <- exp.duration; ch <- exp.totalScrapes; ch <- exp.scrapeErrors;
\* exp.collectMetrics(ch)
CollectEmit(c) ==
    /\ ~crashed
    /\ pc[c] = "emit"
    /\ out' = [out EXCEPT ![c] = [duration |-> duration,
                                  totalScrapes |-> totalScrapes,
                                  scrapeErrors |-> scrapeErrors,
                                  cells |-> CellsOf(metrics)]]
    /\ pc' = [pc EXCEPT ![c] = "emitted"]
    /\ UNCHANGED <<desc, mtx, expVars, scr, closed, prod, crashed, completed,
                   fed, histVars>>

\* Collect returns: the deferred exp.Unlock() runs
CollectReturn(c) ==
    /\ ~crashed
    /\ pc[c] = "emitted"
    /\ mtx' = IF mtx = c THEN NoCaller ELSE mtx
    /\ pc' = [pc EXCEPT ![c] = "returned"]
    /\ completed' = completed + 1
    /\ prod' = [prod EXCEPT ![c] = NoProd]
    /\ folded' = [folded EXCEPT ![c] = <<>>]
    /\ fetched' = [fetched EXCEPT ![c] = {}]
    /\ failed' = [failed EXCEPT ![c] = {}]
    /\ droppedAsync' = [droppedAsync EXCEPT ![c] = FALSE]
    /\ deviant' = [deviant EXCEPT ![c] = 0]
    /\ out' = [out EXCEPT ![c] = NoOut]
    /\ UNCHANGED <<desc, expVars, scr, closed, crashed, fed>>

Next ==
    \E c \in Callers :
        \/ CollectCall(c)
        \/ CollectLock(c)
        \/ CollectInit(c)
        \/ ScrapeStart(c)
        \/ ScrapeRequest(c)
        \/ ScrapeSendField(c)
        \/ ScrapeSendStat(c)
        \/ ScrapeAdvance(c)
        \/ ScrapeFinish(c)
        \/ Fold(c)
        \/ CollectRangeEnd(c)
        \/ CollectEmit(c)
        \/ CollectReturn(c)

Spec == Init /\ [][Next]_vars

(* ----------------- setMetrics driven sample by sample ----------------- *)
\* the goroutine that drives setMetrics directly
Driver == 1

\* samples a producer can put on the channel: catalog names and an unseen
\* name, with each combination of empty and non-empty labels
DriverSamples ==
    { scrapeResult(n, v, t, st) :
        n \in {"async", "replication_stats", "recon_new"}, v \in {1, 2},
        t \in {"", "object", "account"}, st \in {"", "pending"} }

\* exp.setMetrics(scrapes) is called on a freshly constructed exporter
SetMetricsCall(c) ==
    /\ ~crashed
    /\ c = Driver
    /\ pc[c] = "idle"
    /\ fed = 0
    /\ pc' = [pc EXCEPT ![c] = "recv"]
    /\ UNCHANGED <<desc, mtx, expVars, scr, closed, prod, crashed, completed,
                   fed, histVars, out>>

\* `for scr := range scrapes` receives the next sample
SetMetricsRecv(c) ==
    /\ ~crashed
    /\ c = Driver
    /\ pc[c] = "recv"
    /\ prod[c].pc = "none"
    /\ fed < MaxFolds
    /\ \E s \in DriverSamples : scr' = [scr EXCEPT ![c] = s]
    /\ fed' = fed + 1
    /\ pc' = [pc EXCEPT ![c] = "fold"]
    /\ UNCHANGED <<desc, mtx, expVars, closed, prod, crashed, completed,
                   histVars, out>>

NextFold ==
    \E c \in Callers :
        \/ SetMetricsCall(c)
        \/ SetMetricsRecv(c)
        \/ Fold(c)

SpecFold == Init /\ [][NextFold]_vars

(* ----------------------------- Describe ------------------------------- *)
\* Describe is entered and starts `for _, m := range exp.metrics`; it takes
\* neither exp.RWMutex nor exp.metricsMtx
DescribeCall ==
    /\ ~crashed
    /\ desc = "idle"
    /\ desc' = "ranging"
    /\ UNCHANGED <<mtx, expVars, pc, scr, closed, prod, crashed, completed,
                   fed, histVars, out>>

\* the loop over exp.metrics has described every entry it found
DescribeRange ==
    /\ ~crashed
    /\ desc = "ranging"
    /\ desc' = "scalars"
    /\ UNCHANGED <<mtx, expVars, pc, scr, closed, prod, crashed, completed,
                   fed, histVars, out>>

\* exp.duration, exp.totalScrapes and exp.scrapeErrors are read and described
DescribeReturn ==
    /\ ~crashed
    /\ desc = "scalars"
    /\ desc' = "returned"
    /\ UNCHANGED <<mtx, expVars, pc, scr, closed, prod, crashed, completed,
                   fed, histVars, out>>

\* initGauges writes the map while Describe iterates it: besides going on
\* with what it read, the runtime may detect the concurrent map iteration
\* and map write and end the process
DescribeFatal ==
    /\ ~crashed
    /\ desc = "ranging"
    /\ \E c \in Callers : pc[c] = "init"
    /\ crashed' = TRUE
    /\ UNCHANGED <<mtx, expVars, pc, scr, closed, prod, completed, fed,
                   histVars, out, desc>>

\* the exporter registered with a registry that may call Describe while
\* scrape requests are served
NextDescribe ==
    \/ \E c \in Callers :
        \/ CollectCall(c)
        \/ CollectLock(c)
        \/ CollectInit(c)
        \/ ScrapeStart(c)
        \/ ScrapeRequest(c)
        \/ ScrapeSendField(c)
        \/ ScrapeSendStat(c)
        \/ ScrapeAdvance(c)
        \/ ScrapeFinish(c)
        \/ Fold(c)
        \/ CollectRangeEnd(c)
        \/ CollectEmit(c)
        \/ CollectReturn(c)
    \/ DescribeCall
    \/ DescribeRange
    \/ DescribeReturn
    \/ DescribeFatal

SpecDescribe == Init /\ [][NextDescribe]_vars

(* ============================ properties ============================== *)
Range(q) == {q[i] : i \in 1..Len(q)}

\* the samples the caller's scrape goroutine has sent so far, in order
SentSeq(c) == folded[c] \o (IF scr[c] # NoScr THEN <<scr[c]>> ELSE <<>>)
Sent(c) == Range(SentSeq(c))

\* the scrape function a sample name belongs to
SampleOp(name) ==
    CASE name = "async" -> "async"
      [] name \in {"replication_time", "replication_last", "replication_stats"} -> "replication"
      [] name = "updater_sweep" -> "updater"
      [] name \in {"expirer_expiration_pass", "expirer_expired_last_pass"} -> "expirer"
      [] name = "quarantined" -> "quarantined"
      [] OTHER -> "none"

\* the resource (request method) a sample was extracted from
SampleMethod(s) ==
    LET R == {r \in Range(Resources) :
                r.op = SampleOp(s.Name) /\ (r.t = "" \/ r.t = s.Type)}
    IN IF R = {} THEN "none" ELSE (CHOOSE r \in R : TRUE).method

AllMethods == {r.method : r \in Range(Resources)}
MethodsOfOp(op) == {r.method : r \in {x \in Range(Resources) : x.op = op}}
OpOfMethod(m) == (CHOOSE r \in Range(Resources) : r.method = m).op

\* the caller is between initGauges and the end of its emission
InCycle(c) == pc[c] \in {"recv", "fold", "emit"}
\* the caller's scrape goroutine has work left
Scraping(c) == prod[c].pc \in {"start", "request", "extract", "finish"}

\* C1: at most one Collect is between its initGauges and the end of its
\* emission, and a scrape goroutine only runs while its own Collect is the
\* one in the cycle and holds the mutex
C1_CyclesSerialize ==
    /\ Cardinality({c \in Callers : InCycle(c)}) <= 1
    /\ \A c \in Callers :
         (InCycle(c) \/ pc[c] \in {"init", "emitted"}) => mtx = c
    /\ \A c \in Callers :
         (Scraping(c) /\ pc[c] # "panicked") => (InCycle(c) /\ mtx = c)

\* C1 witness: one Collect folds a sample while another waits for the lock
C1_Witness ==
    \E c, d \in Callers : c # d /\ pc[c] = "fold" /\ pc[d] = "lock"

\* C2: no Collect call ends without having emitted the three scalars
\* (its scrape goroutine would stay blocked on the channel)
C2_EveryCollectEmits ==
    \A c \in Callers : ~(pc[c] = "panicked" /\ out[c] = NoOut)

\* C3 as stated: a failed request of an operation leaves no sample of that
\* operation in the registry
C3_NoSampleOfFailedOperation ==
    \A c \in Callers : \A m \in failed[c] :
        \A s \in Range(folded[c]) : SampleOp(s.Name) # OpOfMethod(m)

\* C3 amended: a failed request leaves no sample of that resource (nor of
\* the resources the same function would have requested after it), and a
\* Collect is only ever aborted by a sample, never by a failed request
C3_NoSampleOfFailedResource ==
    \A c \in Callers :
        /\ \A m \in failed[c] : \A s \in Sent(c) : SampleMethod(s) # m
        /\ \A m \in failed[c] : \A n \in MethodsOfOp(OpOfMethod(m)) \ fetched[c] :
              \A s \in Sent(c) : SampleMethod(s) # n
        /\ pc[c] = "panicked" =>
              (scr[c] # NoScr /\ SampleMethod(scr[c]) \notin failed[c])

\* C3 witness: replication/account failed after replication/container had
\* delivered a sample, and the cycle has emitted
C3_Witness ==
    \E c \in Callers :
        /\ pc[c] = "emitted"
        /\ "replication/account" \in failed[c]
        /\ \E s \in Range(folded[c]) : SampleMethod(s) = "replication/container"

\* C4: whatever fails, all eight resources are requested in the cycle
C4_EveryResourceRequested ==
    \A c \in Callers : prod[c].pc = "done" => fetched[c] = AllMethods

\* C5: when Collect emits, its scrape goroutine has finished (counter
\* incremented, duration written, channel closed) and no sample is unfolded
C5_ProducerDoneBeforeEmit ==
    \A c \in Callers :
        /\ pc[c] \in {"emit", "emitted"} =>
              /\ prod[c].pc = "done"
              /\ closed[c]
              /\ scr[c] = NoScr
              /\ totalScrapes >= 1
              /\ duration = Elapsed
        /\ pc[c] = "emitted" =>
              (out[c].duration = Elapsed /\ out[c].totalScrapes >= 1)

\* C5 witness: a cycle that folded several samples is about to emit
C5_Witness ==
    \E c \in Callers : pc[c] = "emit" /\ Len(folded[c]) >= 2

\* C6: the k-th completed Collect emits k as the total number of scrapes
C6_TotalCountsCollects ==
    \A c \in Callers : pc[c] = "emitted" => out[c].totalScrapes = completed + 1

\* C7: the cells a Collect emits are exactly the cells folded in its cycle
C7_EmitsCellsOfThisCycle ==
    \A c \in Callers :
        pc[c] = "emitted" =>
            {<<x[1], x[2]>> : x \in out[c].cells} =
            {<<s.Name, LabelsOf(s)>> : s \in Range(folded[c])}

\* C7 witness: the registry dropped at the start of the cycle held the async
\* cell; this cycle got no async sample and emits other cells but not that one
C7_Witness ==
    \E c \in Callers :
        /\ pc[c] = "emitted"
        /\ droppedAsync[c]
        /\ out[c].cells # {}
        /\ \A x \in out[c].cells : x[1] # "async"

\* positions in the sent sequence of the samples of a top-level field
SamplesOfField(c, f) ==
    {i \in 1..Len(SentSeq(c)) :
        /\ SentSeq(c)[i].Name = f.Name
        /\ SentSeq(c)[i].Type = f.Type
        /\ SentSeq(c)[i].Status = f.Status}

\* positions in the sent sequence of the replication_stats samples of a key
SamplesOfStat(c, t, k) ==
    {i \in 1..Len(SentSeq(c)) :
        /\ SentSeq(c)[i].Name = "replication_stats"
        /\ SentSeq(c)[i].Type = t
        /\ SentSeq(c)[i].Status = k}

FieldSet(r) == Range(FieldsOf(r))
ResourceOfMethod(m) == CHOOSE r \in Range(Resources) : r.method = m

\* the scrape goroutine is done with the response it holds
Leaves(c) == prod[c].pc = "extract" /\ prod'[c].pc # "extract"

\* no sample stands for a field that is not a number of the response, nor
\* for a field of a resource whose request failed
C8_NoInventedSample ==
    \A c \in Callers :
        /\ prod[c].pc = "extract" =>
              \A f \in FieldSet(Resources[prod[c].idx]) :
                 \A i \in SamplesOfField(c, f) :
                    /\ IsFloat64(prod[c].res, f.key)
                    /\ SentSeq(c)[i].Value = prod[c].res[f.key].v
        /\ \A m \in failed[c] : \A f \in FieldSet(ResourceOfMethod(m)) :
              SamplesOfField(c, f) = {}

\* when the goroutine is done with a response, each field that is a number
\* in it has exactly one sample and every other field has none
C8_EveryNumberSampled ==
    \A c \in Callers :
        Leaves(c) =>
            \A f \in FieldSet(Resources[prod[c].idx]) :
                Cardinality(SamplesOfField(c, f)) =
                    IF IsFloat64(prod[c].res, f.key) THEN 1 ELSE 0

\* C8: a sample is sent for a top-level field exactly if the request
\* succeeded and the field is a number of the response, with that number as
\* its value; absent and mistyped fields yield nothing
C8_FieldExtraction == []C8_NoInventedSample /\ [][C8_EveryNumberSampled]_vars

\* C8 witness: updater/container answered without its field; the cycle
\* emitted no updater_sweep{type="container"} cell but the one of object
C8_Witness ==
    \E c \in Callers :
        /\ pc[c] = "emitted"
        /\ "updater/container" \in fetched[c] \ failed[c]
        /\ \A s \in Range(folded[c]) :
              ~(s.Name = "updater_sweep" /\ s.Type = "container")
        /\ \E s \in Range(folded[c]) :
              s.Name = "updater_sweep" /\ s.Type = "object" /\ s.Value = 8

\* never a failure_nodes sample; at most one sample per key, carrying the
\* number the response has under that key
C9_StatsSafe ==
    \A c \in Callers :
        /\ \A s \in Sent(c) : s.Status # "failure_nodes"
        /\ (prod[c].pc = "extract" /\ Resources[prod[c].idx].op = "replication") =>
              LET r == Resources[prod[c].idx]
                  stats == ReplicationStats(r, prod[c].res)
              IN /\ \A s \in Sent(c) :
                       (s.Name = "replication_stats" /\ s.Type = r.t) =>
                            s.Status \in DOMAIN stats
                 /\ \A k \in DOMAIN stats :
                       /\ Cardinality(SamplesOfStat(c, r.t, k)) <= 1
                       /\ \A i \in SamplesOfStat(c, r.t, k) :
                             /\ stats[k].k = "num"
                             /\ SentSeq(c)[i].Value = stats[k].v

\* when the goroutine is done with a replication response, every key but
\* failure_nodes that holds a number has exactly one sample
C9_StatsComplete ==
    \A c \in Callers :
        (Leaves(c) /\ Resources[prod[c].idx].op = "replication") =>
            LET r == Resources[prod[c].idx]
                stats == ReplicationStats(r, prod[c].res)
            IN /\ \A k \in DOMAIN stats :
                     Cardinality(SamplesOfStat(c, r.t, k)) =
                         IF k # "failure_nodes" /\ stats[k].k = "num" THEN 1 ELSE 0
               /\ \A s \in Sent(c) :
                     (s.Name = "replication_stats" /\ s.Type = r.t) =>
                          s.Status \in DOMAIN stats

FoldStep(c) == pc[c] = "fold" /\ pc'[c] # "fold"

C10_FoldRegistersOnce ==
    \A c \in Callers :
        FoldStep(c) =>
            LET n == scr[c].Name
            IN /\ n \notin DOMAIN metrics =>
                    /\ DOMAIN metrics' = DOMAIN metrics \cup {n}
                    /\ Cardinality(DOMAIN metrics') = Cardinality(DOMAIN metrics) + 1
               /\ n \in DOMAIN metrics =>
                    /\ DOMAIN metrics' = DOMAIN metrics
                    /\ metrics'[n].name = metrics[n].name
                    /\ metrics'[n].labels = metrics[n].labels
                    /\ DOMAIN metrics[n].cells \subseteq DOMAIN metrics'[n].cells
                    /\ \A l \in DOMAIN metrics[n].cells :
                          l # LabelsOf(scr[c]) =>
                              metrics'[n].cells[l] = metrics[n].cells[l]
               /\ \A x \in DOMAIN metrics \ {n} : metrics'[x] = metrics[x]

\* C10: folding a sample of an unseen name adds exactly one entry, under
\* that name; a fold of a name that has an entry adds none and keeps the
\* entry with the cells set in it
C10_DynamicEntryOnce == [][C10_FoldRegistersOnce]_vars

\* C10 witness: an entry outside the catalog holds two cells, set by two
\* folds of the same unseen name
C10_Witness ==
    \E n \in DOMAIN metrics \ DOMAIN CatalogMetrics :
        Cardinality(DOMAIN metrics[n].cells) >= 2

Max(S) == CHOOSE x \in S : \A y \in S : y <= x

\* positions in the folded sequence of the samples of one cell
FoldsOfCell(c, n, l) ==
    {i \in 1..Len(folded[c]) :
        folded[c][i].Name = n /\ LabelsOf(folded[c][i]) = l}

\* the registry holds exactly the cells that were folded, each with the
\* value of the last sample folded into it
C11_LastValueHeld ==
    /\ \A n \in DOMAIN metrics : \A l \in DOMAIN metrics[n].cells :
          /\ FoldsOfCell(Driver, n, l) # {}
          /\ metrics[n].cells[l] =
                folded[Driver][Max(FoldsOfCell(Driver, n, l))].Value
    /\ \A i \in 1..Len(folded[Driver]) :
          /\ folded[Driver][i].Name \in DOMAIN metrics
          /\ LabelsOf(folded[Driver][i]) \in
                DOMAIN metrics[folded[Driver][i].Name].cells

\* a fold writes the cell of its sample and no other
C11_OtherCellsKept ==
    \A c \in Callers :
        FoldStep(c) =>
            \A x \in CellsOf(metrics) :
                (x[1] # scr[c].Name \/ x[2] # LabelsOf(scr[c])) =>
                    x \in CellsOf(metrics')

\* C11: folding sets and does not accumulate: each cell holds the value of
\* the last sample folded with its name and label tuple, and a fold leaves
\* every other cell as it was
C11_FoldOverwrites == []C11_LastValueHeld /\ [][C11_OtherCellsKept]_vars

\* C11 witness: two samples with different values were folded into the same
\* cell
C11_Witness ==
    \E i, j \in 1..Len(folded[Driver]) :
        /\ i < j
        /\ folded[Driver][i].Name = folded[Driver][j].Name
        /\ LabelsOf(folded[Driver][i]) = LabelsOf(folded[Driver][j])
        /\ folded[Driver][i].Value # folded[Driver][j].Value

\* C12: at emission the exposed family names are the eight catalog keys, and
\* every folded sample is exposed as a family of the sample's own name
C12_ExposedUnderSampleName ==
    \A c \in Callers :
        pc[c] = "emitted" =>
            /\ {f[1] : f \in ExposedFamilies(metrics)} = DOMAIN CatalogMetrics
            /\ \A i \in 1..Len(folded[c]) :
                  \E f \in ExposedFamilies(metrics) :
                      f[1] = folded[c][i].Name

\* the caller's cycle is writing the entry map or the scalar references:
\* it is inside initGauges, or setMetrics is about to insert an entry
WritingRegistry(c) ==
    \/ pc[c] = "init"
    \/ pc[c] = "fold" /\ scr[c].Name \notin DOMAIN metrics

\* C13: no Describe call is reading the entry map or the three scalar
\* references while a Collect cycle is replacing them or inserting an entry
C13_RegistryAccessLocked ==
    \A c \in Callers :
        WritingRegistry(c) => desc \notin {"ranging", "scalars"}

\* C14: the labels that are non-empty on a sample handed to setMetrics are
\* the label schema of the entry it is folded into, so the cell lookup
\* succeeds and no cycle is aborted midway
C14_FoldNeverFails ==
    \A c \in Callers :
        /\ scr[c] # NoScr =>
              WithOk(Register(metrics, scr[c].Name)[scr[c].Name],
                     LabelsOf(scr[c]))
        /\ pc[c] # "panicked"

\* C15: every sample a scrape function sends is named by a key of the
\* catalog built by initGauges, so setMetrics finds the entry of each sample
\* it folds and never inserts one, and the registry holds exactly the eight
\* catalog entries when the cycle emits
C15_OnlyCatalogNames ==
    \A c \in Callers :
        /\ scr[c] # NoScr => scr[c].Name \in DOMAIN CatalogMetrics
        /\ pc[c] = "fold" => scr[c].Name \in DOMAIN metrics
        /\ pc[c] \in {"emit", "emitted"} =>
              /\ DOMAIN metrics = DOMAIN CatalogMetrics
              /\ Cardinality(DOMAIN metrics) = 8

\* C15 witness: a cycle folded samples of all eight names and emits from a
\* registry of the eight catalog entries
C15_Witness ==
    \E c \in Callers :
        /\ pc[c] = "emitted"
        /\ {s.Name : s \in Range(folded[c])} = DOMAIN CatalogMetrics
        /\ DOMAIN metrics = DOMAIN CatalogMetrics

====
